---------------------------- MODULE Spec2Model ----------------------------
(***************************************************************************)
(* psych-shader-fixer, src/script.js.                                      *)
(*                                                                         *)
(* Two parts of the script are modelled:                                   *)
(*   - the WebGL preview engine (initWebGLPreview: compileAndRun, the      *)
(*     per-frame render callback, stopPreview and the canvas gesture       *)
(*     handlers), as a state machine over the fields of `webgl`;           *)
(*   - the shader fixer (smartFixShader, parseErrorsAndFix), as operators  *)
(*     on strings, applied by the AUTO-FIX and "Apply fixes" buttons to    *)
(*     the text of the code editor.                                        *)
(*                                                                         *)
(* Shader text is a TLA+ string; characters are its substrings of length   *)
(* one.  Floating-point quantities are fixed-point integers, the unit is   *)
(* stated where each is declared.                                          *)
(***************************************************************************)
EXTENDS Integers, Sequences, FiniteSets, TLC

VARIABLES
    program,        \* webgl.program: 0 is null, otherwise the program object
    livePrograms,   \* program objects created and not yet deleted
    liveShaders,    \* number of shader objects created and not yet deleted
    animReq,        \* webgl.animReq: 0 is null, otherwise a request id
    pending,        \* frame callbacks requested and neither run nor cancelled
    startTime,      \* webgl.startTime
    now,            \* performance.now()
    interaction,    \* webgl.interaction
    status,         \* text of #statusLabel
    compileLog,     \* newest entry of #compileLog (entries are prepended)
    canvasSized,    \* resizeGLCanvas has fitted the canvas to its parent
    code,           \* el.code.innerText, the editor's text
    logsInput,      \* el.logsInput.value
    fixed,          \* window.GODFIX_FIXED
    mainLog,        \* messages of the entries of #mainLog, newest first
    passes          \* clicks on the fix and apply-logs buttons so far

engineVars == <<program, livePrograms, liveShaders, animReq, pending, startTime,
                now, status, compileLog, canvasSized>>
textVars == <<code, logsInput, fixed, mainLog, passes>>
vars == <<program, livePrograms, liveShaders, animReq, pending, startTime, now,
          interaction, status, compileLog, canvasSized, code, logsInput, fixed,
          mainLog, passes>>

-----------------------------------------------------------------------------
(* Bounds of the model.                                                    *)

MaxShaders == 6     \* compileAndRun is not called once this many shaders are live
MaxTime == 1        \* the clock stops advancing here
MaxRotation == 2    \* |rotation| is kept within this many pixels of drag
MaxClicks == 1      \* canvas clicks counted in colorOffset
MaxPasses == 2      \* clicks on the fix and apply-logs buttons

-----------------------------------------------------------------------------
(* Small arithmetic helpers.                                               *)

Max(a, b) == IF a >= b THEN a ELSE b
Min(a, b) == IF a <= b THEN a ELSE b
Abs(a) == IF a >= 0 THEN a ELSE -a

\* Math.hypot on integer pixel offsets, rounded down to a whole pixel.
Hypot(dx, dy) ==
    LET n == dx * dx + dy * dy
    IN  CHOOSE r \in 0..(Abs(dx) + Abs(dy)) : r * r <= n /\ (r + 1) * (r + 1) > n

\* A handle the platform has not handed out among `used`: createProgram and
\* requestAnimationFrame return a handle distinct from every outstanding one.
FreshHandle(used) ==
    CHOOSE h \in 1..(Cardinality(used) + 1) :
        h \notin used /\ \A g \in 1..(h - 1) : g \in used

-----------------------------------------------------------------------------
(* The preview engine: state after initWebGLPreview (script.js 616-619).   *)

\* webgl.interaction.zoom and its clamp, in hundredths.
ZoomInit == 100
ZoomMin == 18
ZoomMax == 600

\* colorOffset is counted in tenths; one canvas click adds 0.7.
ColorStep == 7

\* rotation is counted in pixels of horizontal drag: the handlers add
\* dx / max(clientWidth, clientHeight) * PI * 1.1 for a drag of dx pixels,
\* and the canvas keeps its client size under a fixed layout.
InteractionInit ==
    [rotation |-> 0, zoom |-> ZoomInit, colorOffset |-> 0, dragging |-> FALSE,
     lastX |-> 0, lastY |-> 0, pinchDist |-> 0]

NoLogEntry == [level |-> "", msg |-> ""]

EngineInit ==
    /\ program = 0
    /\ livePrograms = {}
    /\ liveShaders = 0
    /\ animReq = 0
    /\ pending = {}
    /\ startTime = 0
    /\ now = 0
    /\ interaction = InteractionInit
    /\ status = ""
    /\ compileLog = NoLogEntry
    /\ canvasSized = FALSE

\* logCompile(msg, level): the entry is prepended, so it is the newest one.
LogEntry(msg, level) == [level |-> level, msg |-> msg]

\* Outcomes the graphics driver can give one compileAndRun call: the vertex
\* stage is rejected, the fragment stage is rejected, the link is rejected,
\* or the program links.
CompileOutcomes == {"vsFail", "fsFail", "linkFail", "ok"}

\* The info log text the driver reports on a failure.
DriverInfos == {"ERROR: 0:1: 'foo' : undeclared identifier"}

\* compileShader, script.js 635-646: a shader object is created; when it does
\* not compile it is deleted again and the info log is thrown.
\* Shader objects left live by compiling the vertex and then the fragment stage.
ShadersKept(outcome) ==
    CASE outcome = "vsFail" -> 0
      [] outcome = "fsFail" -> 1
      [] OTHER -> 2

\* The catch block of compileAndRun, script.js 717-721.
CompileFailed(message) ==
    /\ compileLog' = LogEntry("Compile/Link failed: " \o message, "ERR")
    /\ status' = "Status: Compile Error"

\* compileAndRun when a stage does not compile, with line 656 (the deletion of
\* the previous program) moved before the two compileShader calls.
CompileAndRunShaderFailTeardown(outcome, info) ==
    /\ outcome \in {"vsFail", "fsFail"}
    /\ liveShaders + 2 <= MaxShaders
    /\ canvasSized' = TRUE
    /\ liveShaders' = liveShaders + ShadersKept(outcome)
    /\ livePrograms' = livePrograms \ {program}
    /\ program' = 0
    /\ CompileFailed(info)
    /\ UNCHANGED <<animReq, pending, startTime, now, interaction>>
    /\ UNCHANGED textVars

\* compileAndRun when a stage does not compile, script.js 648-655 and 717-721:
\* compileShader throws before line 656 is reached.
CompileAndRunShaderFail(outcome, info) ==
    /\ outcome \in {"vsFail", "fsFail"}
    /\ liveShaders + 2 <= MaxShaders
    /\ canvasSized' = TRUE
    /\ liveShaders' = liveShaders + ShadersKept(outcome)
    /\ CompileFailed(info)
    /\ UNCHANGED <<program, livePrograms, animReq, pending, startTime, now,
                   interaction>>
    /\ UNCHANGED textVars

\* compileAndRun when both stages compile and the link fails, script.js
\* 648-665 and 717-721: the previous program is deleted and webgl.program
\* nulled (656) before the new program is created, linked, deleted and the
\* link error thrown.
CompileAndRunLinkFail(outcome, info) ==
    /\ outcome = "linkFail"
    /\ liveShaders + 2 <= MaxShaders
    /\ canvasSized' = TRUE
    /\ liveShaders' = liveShaders + ShadersKept(outcome)
    /\ livePrograms' = livePrograms \ {program}
    /\ program' = 0
    /\ CompileFailed("Link error: " \o info)
    /\ UNCHANGED <<animReq, pending, startTime, now, interaction>>
    /\ UNCHANGED textVars

\* compileAndRun on a link that succeeds, with line 668 (the cancellation of
\* the scheduled callback) left out.
CompileAndRunOkNoCancel ==
    /\ liveShaders + 2 <= MaxShaders
    /\ canvasSized' = TRUE
    /\ liveShaders' = liveShaders + ShadersKept("ok")
    /\ LET p == FreshHandle(livePrograms \cup {program})
           r == FreshHandle(pending \cup {animReq})
       IN  /\ livePrograms' = (livePrograms \ {program}) \cup {p}
           /\ program' = p
           /\ pending' = pending \cup {r}
           /\ animReq' = r
    /\ startTime' = now
    /\ compileLog' = LogEntry("Compiled & preview running", "OK")
    /\ status' = "Status: Preview running"
    /\ UNCHANGED <<now, interaction>>
    /\ UNCHANGED textVars

\* compileAndRun on a link that succeeds, resetting the view as well.
CompileAndRunOkResetView ==
    /\ liveShaders + 2 <= MaxShaders
    /\ canvasSized' = TRUE
    /\ liveShaders' = liveShaders + ShadersKept("ok")
    /\ LET p == FreshHandle(livePrograms \cup {program})
           r == FreshHandle(pending \cup {animReq})
       IN  /\ livePrograms' = (livePrograms \ {program}) \cup {p}
           /\ program' = p
           /\ pending' = (pending \ {animReq}) \cup {r}
           /\ animReq' = r
    /\ startTime' = now
    /\ compileLog' = LogEntry("Compiled & preview running", "OK")
    /\ status' = "Status: Preview running"
    /\ interaction' = InteractionInit
    /\ UNCHANGED now
    /\ UNCHANGED textVars

\* compileAndRun on a link that succeeds, with line 667 (the reset of the
\* start time) left out.
CompileAndRunOkKeepStart ==
    /\ liveShaders + 2 <= MaxShaders
    /\ canvasSized' = TRUE
    /\ liveShaders' = liveShaders + ShadersKept("ok")
    /\ LET p == FreshHandle(livePrograms \cup {program})
           r == FreshHandle(pending \cup {animReq})
       IN  /\ livePrograms' = (livePrograms \ {program}) \cup {p}
           /\ program' = p
           /\ pending' = (pending \ {animReq}) \cup {r}
           /\ animReq' = r
    /\ compileLog' = LogEntry("Compiled & preview running", "OK")
    /\ status' = "Status: Preview running"
    /\ UNCHANGED <<startTime, now, interaction>>
    /\ UNCHANGED textVars

\* compileAndRun when the program links, script.js 648-716: the previous
\* program is deleted, the new one becomes current, the start time is reset,
\* the scheduled callback is cancelled, and render() runs once, requesting
\* the next frame.
CompileAndRunOk ==
    /\ liveShaders + 2 <= MaxShaders
    /\ canvasSized' = TRUE
    /\ liveShaders' = liveShaders + ShadersKept("ok")
    /\ LET p == FreshHandle(livePrograms \cup {program})
           r == FreshHandle(pending \cup {animReq})
       IN  /\ livePrograms' = (livePrograms \ {program}) \cup {p}
           /\ program' = p
           /\ pending' = (pending \ {animReq}) \cup {r}
           /\ animReq' = r
    /\ startTime' = now
    /\ compileLog' = LogEntry("Compiled & preview running", "OK")
    /\ status' = "Status: Preview running"
    /\ UNCHANGED <<now, interaction>>
    /\ UNCHANGED textVars

\* The frame callback `render` run by the browser for request r, script.js
\* 670-713.  With a current program it draws and requests the next frame.
RenderTick(r) ==
    /\ r \in pending
    /\ program # 0
    /\ canvasSized' = TRUE
    /\ LET q == FreshHandle((pending \ {r}) \cup {animReq})
       IN  /\ pending' = (pending \ {r}) \cup {q}
           /\ animReq' = q
    /\ UNCHANGED <<program, livePrograms, liveShaders, startTime, now,
                   interaction, status, compileLog>>
    /\ UNCHANGED textVars

\* The frame callback run while webgl.program is null (after a failed link
\* deleted the program it was drawing).  getUniformLocation(null, ...) at
\* line 676 raises a TypeError under the current WebGL interface definition,
\* which ends the callback chain; under the original one it records
\* INVALID_VALUE and returns null, and the callback goes on to line 712.
RenderTickNoProgram(r, raises) ==
    /\ r \in pending
    /\ program = 0
    /\ canvasSized' = TRUE
    /\ IF raises
         THEN /\ pending' = pending \ {r}
              /\ UNCHANGED animReq
         ELSE LET q == FreshHandle((pending \ {r}) \cup {animReq})
              IN  /\ pending' = (pending \ {r}) \cup {q}
                  /\ animReq' = q
    /\ UNCHANGED <<program, livePrograms, liveShaders, startTime, now,
                   interaction, status, compileLog>>
    /\ UNCHANGED textVars

\* stopPreview with lines 727-728 (the deletion of the program) left out.
StopPreviewKeepProgram ==
    /\ pending' = pending \ {animReq}
    /\ compileLog' = LogEntry("Preview stopped", "OK")
    /\ status' = "Status: Preview stopped"
    /\ UNCHANGED <<program, livePrograms, liveShaders, animReq, startTime, now,
                   interaction, canvasSized>>
    /\ UNCHANGED textVars

\* stopPreview clearing webgl.animReq as well.
StopPreviewClearReq ==
    /\ pending' = pending \ {animReq}
    /\ animReq' = 0
    /\ livePrograms' = livePrograms \ {program}
    /\ program' = 0
    /\ compileLog' = LogEntry("Preview stopped", "OK")
    /\ status' = "Status: Preview stopped"
    /\ UNCHANGED <<liveShaders, startTime, now, interaction, canvasSized>>
    /\ UNCHANGED textVars

\* stopPreview, script.js 724-732.  webgl.animReq keeps its value.
StopPreview ==
    /\ pending' = pending \ {animReq}
    /\ livePrograms' = livePrograms \ {program}
    /\ program' = 0
    /\ compileLog' = LogEntry("Preview stopped", "OK")
    /\ status' = "Status: Preview stopped"
    /\ UNCHANGED <<liveShaders, animReq, startTime, now, interaction, canvasSized>>
    /\ UNCHANGED textVars

\* The engine state the status label shows, script.js 716, 720 and 730.
EngineState ==
    CASE status = "Status: Preview running" -> "Running"
      [] status = "Status: Compile Error" -> "CompileFailed"
      [] OTHER -> "Idle"

\* Time passes between two events (performance.now() is monotonic).
ClockAdvance ==
    /\ now < MaxTime
    /\ now' = now + 1
    /\ UNCHANGED <<program, livePrograms, liveShaders, animReq, pending,
                   startTime, interaction, status, compileLog, canvasSized>>
    /\ UNCHANGED textVars

-----------------------------------------------------------------------------
(* Canvas gesture handlers, script.js 742-797.  Each changes only          *)
(* webgl.interaction.                                                      *)

GestureFrame == UNCHANGED engineVars /\ UNCHANGED textVars

\* The clamp with Math.min(6.0, ...) left out.
ClampZoomNoUpper(z) == Max(ZoomMin, z)

\* Math.max(0.18, Math.min(6.0, z)), script.js 762 and 788.
ClampZoom(z) == Max(ZoomMin, Min(ZoomMax, z))

\* pointerdown, script.js 744-749.
PointerDown(x, y) ==
    /\ interaction' = [interaction EXCEPT !.dragging = TRUE, !.lastX = x, !.lastY = y]
    /\ GestureFrame

\* The rotation a drag to clientX = x adds, script.js 752-755 and 791-793.
DragTo(x) ==
    [interaction EXCEPT !.lastX = x, !.rotation = @ + (x - interaction.lastX)]

\* pointermove, script.js 750-756.
PointerMove(x) ==
    /\ Abs(interaction.rotation + (x - interaction.lastX)) <= MaxRotation
    /\ interaction' = IF interaction.dragging THEN DragTo(x) ELSE interaction
    /\ GestureFrame

\* pointerup and pointercancel, script.js 757-758.
PointerUp ==
    /\ interaction' = [interaction EXCEPT !.dragging = FALSE]
    /\ GestureFrame

\* wheel, restarting the animation clock as well.
WheelRestartingClock(deltaY) ==
    /\ interaction' = [interaction EXCEPT
           !.zoom = ClampZoom((@ * (10000 - 18 * deltaY)) \div 10000)]
    /\ startTime' = now
    /\ UNCHANGED <<program, livePrograms, liveShaders, animReq, pending, now,
                   status, compileLog, canvasSized>>
    /\ UNCHANGED textVars

\* wheel, script.js 760-763: zoom * (1 - deltaY * 0.0018), clamped.
Wheel(deltaY) ==
    /\ interaction' = [interaction EXCEPT
           !.zoom = ClampZoom((@ * (10000 - 18 * deltaY)) \div 10000)]
    /\ GestureFrame

\* click, script.js 765.
Click ==
    /\ interaction.colorOffset < MaxClicks * ColorStep
    /\ interaction' = [interaction EXCEPT !.colorOffset = @ + ColorStep]
    /\ GestureFrame

\* The distance between the first two touches, script.js 770-773 and 783-786.
TouchDist(touches) ==
    Hypot(touches[1].x - touches[2].x, touches[1].y - touches[2].y)

\* touchstart, script.js 768-779.
TouchStart(touches) ==
    /\ interaction' =
         IF Len(touches) = 2
           THEN [interaction EXCEPT !.pinchDist = TouchDist(touches)]
           ELSE IF Len(touches) = 1
             THEN [interaction EXCEPT !.dragging = TRUE,
                                      !.lastX = touches[1].x,
                                      !.lastY = touches[1].y]
             ELSE interaction
    /\ GestureFrame

\* touchmove, script.js 781-795.
TouchMove(touches) ==
    /\ Len(touches) = 1 /\ interaction.dragging
         => Abs(interaction.rotation + (touches[1].x - interaction.lastX)) <= MaxRotation
    /\ interaction' =
         IF Len(touches) = 2 /\ interaction.pinchDist # 0
           THEN LET nd == TouchDist(touches)
                IN  [interaction EXCEPT
                       !.zoom = ClampZoom((@ * nd) \div interaction.pinchDist),
                       !.pinchDist = nd]
           ELSE IF Len(touches) = 1 /\ interaction.dragging
             THEN DragTo(touches[1].x)
             ELSE interaction
    /\ GestureFrame

\* touchend, script.js 797.
TouchEnd ==
    /\ interaction' = [interaction EXCEPT !.dragging = FALSE, !.pinchDist = 0]
    /\ GestureFrame

-----------------------------------------------------------------------------
(* The engine and its gestures as one state machine.                       *)

TextIdle ==
    /\ code = ""
    /\ logsInput = ""
    /\ fixed = ""
    /\ mainLog = <<>>
    /\ passes = 0

Pt(x, y) == [x |-> x, y |-> y]

\* Event inputs of the engine specification.
PointerXs == {0, 2}
PointerYs == {1}
WheelDeltas == {3000}
TouchLists ==
    { <<Pt(0, 0)>>, <<Pt(2, 0)>>,
      <<Pt(0, 0), Pt(0, 0)>>, <<Pt(0, 0), Pt(2, 0)>>,
      <<Pt(0, 0), Pt(2, 0), Pt(4, 0)>> }

Init == EngineInit /\ TextIdle

Next ==
    \/ \E o \in CompileOutcomes, info \in DriverInfos : CompileAndRunShaderFail(o, info)
    \/ \E o \in CompileOutcomes, info \in DriverInfos : CompileAndRunLinkFail(o, info)
    \/ CompileAndRunOk
    \/ \E r \in pending : RenderTick(r)
    \/ \E r \in pending, raises \in BOOLEAN : RenderTickNoProgram(r, raises)
    \/ StopPreview
    \/ ClockAdvance
    \/ \E x \in PointerXs, y \in PointerYs : PointerDown(x, y)
    \/ \E x \in PointerXs : PointerMove(x)
    \/ PointerUp
    \/ \E d \in WheelDeltas : Wheel(d)
    \/ Click
    \/ \E t \in TouchLists : TouchStart(t)
    \/ \E t \in TouchLists : TouchMove(t)
    \/ TouchEnd

Spec == Init /\ [][Next]_vars

\* Gesture handlers alone, on inputs that reach the whole zoom range: wheel
\* steps from fine to far beyond the clamp, pinches between touches 0, 3, 4,
\* 5 and 100 pixels apart.
WheelDeltasFine == {-100000, -100, 53, 100, 1000, 100000}
TouchListsFine ==
    { <<Pt(0, 0)>>,
      <<Pt(0, 0), Pt(0, 0)>>, <<Pt(0, 0), Pt(3, 0)>>, <<Pt(0, 0), Pt(0, 4)>>,
      <<Pt(3, 0), Pt(0, 4)>>, <<Pt(0, 0), Pt(100, 0)>>,
      <<Pt(0, 0), Pt(3, 0), Pt(0, 4)>> }

NextGestures ==
    \/ \E x \in PointerXs, y \in PointerYs : PointerDown(x, y)
    \/ \E x \in PointerXs : PointerMove(x)
    \/ PointerUp
    \/ \E d \in WheelDeltasFine : Wheel(d)
    \/ Click
    \/ \E t \in TouchListsFine : TouchStart(t)
    \/ \E t \in TouchListsFine : TouchMove(t)
    \/ TouchEnd

SpecGestures == Init /\ [][NextGestures]_vars

-----------------------------------------------------------------------------
(* Steps of the engine, as action formulas.                                *)

CompileFailStep ==
    \E o \in CompileOutcomes, info \in DriverInfos :
        CompileAndRunShaderFail(o, info) \/ CompileAndRunLinkFail(o, info)

TickStep ==
    \E r \in pending :
        RenderTick(r) \/ \E raises \in BOOLEAN : RenderTickNoProgram(r, raises)

\* No program is live and no frame callback is pending.
NothingRunning == program = 0 /\ livePrograms = {} /\ pending = {}

-----------------------------------------------------------------------------
(* C1: in every reachable state at most one linked program is live and at  *)
(* most one per-frame callback is scheduled.                               *)
C1_AtMostOneProgramAndLoop ==
    /\ Cardinality(livePrograms) <= 1
    /\ Cardinality(pending) <= 1
    /\ program # 0 => livePrograms = {program}

\* A second successful compileAndRun has replaced a running preview.
C1_Witness ==
    /\ liveShaders >= 4
    /\ status = "Status: Preview running"
    /\ Cardinality(livePrograms) = 1
    /\ Cardinality(pending) = 1

(* C2: a failed compileAndRun (shader compile or link) leaves the current  *)
(* program handle and the scheduled render loop as they were, writes the   *)
(* driver's diagnostic text to the log, and the engine is CompileFailed.   *)
C2_FailedCompileKeepsPreview ==
    [][ \A o \in CompileOutcomes, info \in DriverInfos :
          (CompileAndRunShaderFail(o, info) \/ CompileAndRunLinkFail(o, info))
          => /\ program' = program
             /\ livePrograms' = livePrograms
             /\ animReq' = animReq
             /\ pending' = pending
             /\ compileLog'.level = "ERR"
             /\ compileLog'.msg \in {"Compile/Link failed: " \o info,
                                     "Compile/Link failed: Link error: " \o info}
             /\ EngineState' = "CompileFailed" ]_vars

(* C3: stop() cancels the frame callback and deletes the program, and the  *)
(* engine is Idle; from then on no program is live, no callback is         *)
(* pending and no render tick runs until a compileAndRun succeeds.         *)
C3_StopQuiesces ==
    [][ /\ StopPreview => NothingRunning' /\ EngineState' = "Idle"
        /\ NothingRunning => ~TickStep
        /\ NothingRunning /\ ~CompileAndRunOk => NothingRunning' ]_vars

\* stop() was called on a running preview, and a failed compile followed.
C3_Witness ==
    /\ NothingRunning
    /\ animReq # 0
    /\ liveShaders >= 3
    /\ status = "Status: Compile Error"

(* C4: stop() with no program running and no callback scheduled changes    *)
(* neither the program handle, the render-loop handle, InteractionState    *)
(* nor the start time and leaves the engine Idle; a second stop() right    *)
(* after a stop() changes nothing at all.                                  *)
C4_StopIdempotent ==
    [][ /\ StopPreview /\ program = 0 /\ pending = {}
           => /\ program' = program
              /\ livePrograms' = livePrograms
              /\ animReq' = animReq
              /\ pending' = pending
              /\ interaction' = interaction
              /\ startTime' = startTime
              /\ EngineState' = "Idle"
        /\ StopPreview /\ NothingRunning /\ status = "Status: Preview stopped"
                       /\ compileLog = LogEntry("Preview stopped", "OK")
           => UNCHANGED vars ]_vars

\* stop() was called although no compileAndRun ever ran, with the view moved.
C4_Witness ==
    /\ status = "Status: Preview stopped"
    /\ liveShaders = 0
    /\ animReq = 0
    /\ interaction.zoom # ZoomInit

(* C5: zoom starts at 1 and stays within [0.18, 6.0] after any sequence of *)
(* wheel and pinch events, whatever deltaY and pinch distances they carry. *)
C5_ZoomClamped ==
    /\ interaction.zoom = ZoomInit
    /\ [](interaction.zoom >= ZoomMin /\ interaction.zoom <= ZoomMax)

\* A pinch out to 100 pixels has driven the zoom into the upper clamp.
C5_Witness ==
    /\ interaction.pinchDist = 100
    /\ interaction.zoom = ZoomMax

(* C6: compileAndRun (successful or failed), stop and every render tick    *)
(* leave all fields of InteractionState unchanged.                         *)
C6_InteractionOnlyByGestures ==
    [][ CompileFailStep \/ CompileAndRunOk \/ StopPreview \/ TickStep
          => interaction' = interaction ]_vars

\* The view was moved and the engine has been through compile/stop cycles.
C6_Witness ==
    /\ interaction.rotation # 0
    /\ interaction.zoom # ZoomInit
    /\ interaction.colorOffset # 0
    /\ liveShaders = MaxShaders
    /\ status = "Status: Preview stopped"

-----------------------------------------------------------------------------
(* Strings.  A character is a string of length one; Ch(s, i) is "" beyond  *)
(* the ends of s.                                                          *)

Sub(s, i, j) == IF i > j THEN "" ELSE SubSeq(s, i, j)
Ch(s, i) == IF i >= 1 /\ i <= Len(s) THEN SubSeq(s, i, i) ELSE ""
From(s, i) == Sub(s, i, Len(s))

\* The literal p occurs in s at position i.
HasAt(s, i, p) ==
    i >= 1 /\ i + Len(p) - 1 <= Len(s) /\ SubSeq(s, i, i + Len(p) - 1) = p

\* String.prototype.includes, and a regular expression that is a literal.
Contains(s, p) == \E i \in 1..(Len(s) - Len(p) + 1) : HasAt(s, i, p)
StartsWith(s, p) == HasAt(s, 1, p)
EndsWith(s, p) == HasAt(s, Len(s) - Len(p) + 1, p)

\* F at the value v: v is written, and evaluated, once for all its uses in F.
With(v, F(_)) == F(v)

Least(S) == CHOOSE x \in S : \A y \in S : x <= y
Greatest(S) == CHOOSE x \in S : \A y \in S : x >= y

\* Character classes of the regular expressions: [0-9], [a-zA-Z_], \w, \s.
Digits == {"0", "1", "2", "3", "4", "5", "6", "7", "8", "9"}
LowerLetters ==
    {"a", "b", "c", "d", "e", "f", "g", "h", "i", "j", "k", "l", "m",
     "n", "o", "p", "q", "r", "s", "t", "u", "v", "w", "x", "y", "z"}
UpperLetters ==
    {"A", "B", "C", "D", "E", "F", "G", "H", "I", "J", "K", "L", "M",
     "N", "O", "P", "Q", "R", "S", "T", "U", "V", "W", "X", "Y", "Z"}
IdentStart == LowerLetters \cup UpperLetters \cup {"_"}
WordChars == IdentStart \cup Digits
Spaces == {" ", "\t", "\n", "\r"}
Swizzle == {"x", "y", "z", "w"}

\* The first position from i on that holds no character of class.
SkipClass(s, i, class) ==
    IF i > Len(s) THEN i
    ELSE CHOOSE j \in i..(Len(s) + 1) :
             Ch(s, j) \notin class /\ \A k \in i..(j - 1) : Ch(s, k) \in class

\* \b at position i: exactly one of the characters before and at i is a \w.
Boundary(s, i) == (Ch(s, i - 1) \in WordChars) # (Ch(s, i) \in WordChars)

\* String.prototype.trim.
Trim(s) ==
    LET keep == {i \in 1..Len(s) : Ch(s, i) \notin Spaces}
    IN  IF keep = {} THEN "" ELSE Sub(s, Least(keep), Greatest(keep))

\* Number of occurrences of the character c, (s.match(/c/g) || []).length.
Count(s, c) == Cardinality({i \in 1..Len(s) : Ch(s, i) = c})

\* The decimal text of a natural number, as a template literal prints it.
RECURSIVE DecimalText(_)
DecimalText(n) ==
    LET digit == <<"0", "1", "2", "3", "4", "5", "6", "7", "8", "9">>[(n % 10) + 1]
    IN  IF n < 10 THEN digit ELSE DecimalText(n \div 10) \o digit

\* String.prototype.repeat.
RECURSIVE Repeat(_, _)
Repeat(c, n) == IF n <= 0 THEN "" ELSE c \o Repeat(c, n - 1)

\* s.replace(/p/g, r) from position i on, for a literal p.
RECURSIVE ReplaceLiteralFrom(_, _, _, _)
ReplaceLiteralFrom(s, i, p, r) ==
    LET hits == {j \in i..Len(s) : HasAt(s, j, p)}
    IN  IF hits = {} THEN From(s, i)
        ELSE LET j == Least(hits)
             IN  Sub(s, i, j - 1) \o r \o ReplaceLiteralFrom(s, j + Len(p), p, r)

ReplaceLiteral(s, p, r) == ReplaceLiteralFrom(s, 1, p, r)

\* s.replace(/\bw\b/g, r) from position i on, for a word w.
WordAt(s, j, w) == HasAt(s, j, w) /\ Boundary(s, j) /\ Boundary(s, j + Len(w))

RECURSIVE ReplaceWordFrom(_, _, _, _)
ReplaceWordFrom(s, i, w, r) ==
    LET hits == {j \in i..Len(s) : WordAt(s, j, w)}
    IN  IF hits = {} THEN From(s, i)
        ELSE LET j == Least(hits)
             IN  Sub(s, i, j - 1) \o r \o ReplaceWordFrom(s, j + Len(w), w, r)

ReplaceWord(s, w, r) == ReplaceWordFrom(s, 1, w, r)

-----------------------------------------------------------------------------
(* smartFixShader, script.js 310-389.  Each step maps a record             *)
(* [out: the source so far, log: the messages passed to logMain so far].   *)

Logged(r, msg) == [r EXCEPT !.log = Append(@, msg)]

\* Line 313: line terminators are normalised to \n.
NormalizeNewlines(text) == ReplaceLiteral(ReplaceLiteral(text, "\r\n", "\n"), "\r", "\n")

\* /precision\s+(lowp|mediump|highp)\s+float\s*;/ matches at position i.
PrecisionAt(s, i) ==
    /\ HasAt(s, i, "precision")
    /\ LET a == i + Len("precision")
           b == SkipClass(s, a, Spaces)
       IN  /\ b > a
           /\ \E q \in {"lowp", "mediump", "highp"} :
                /\ HasAt(s, b, q)
                /\ LET c == b + Len(q)
                       d == SkipClass(s, c, Spaces)
                   IN  /\ d > c
                       /\ HasAt(s, d, "float")
                       /\ Ch(s, SkipClass(s, d + Len("float"), Spaces)) = ";"

HasPrecision(s) == \E i \in 1..Len(s) : PrecisionAt(s, i)

\* Step 1, lines 315-319: add precision if missing.
EnsurePrecision(r) ==
    IF HasPrecision(r.out) THEN r
    ELSE Logged([r EXCEPT !.out = "precision mediump float;\n" \o @],
                "Inserted precision mediump float;")

\* The uniforms of step 2, lines 322-329, in the order of the array.
Uniforms ==
    << [type |-> "float", name |-> "uTime"],
       [type |-> "vec2", name |-> "uResolution"],
       [type |-> "sampler2D", name |-> "uSampler"],
       [type |-> "float", name |-> "uRotate"],
       [type |-> "float", name |-> "uZoom"],
       [type |-> "float", name |-> "uColorOffset"] >>

\* /\buniform\s+<type>\s+<name>\b/ matches at position i.
UniformAt(s, i, u) ==
    /\ HasAt(s, i, "uniform")
    /\ Boundary(s, i)
    /\ LET a == i + Len("uniform")
           b == SkipClass(s, a, Spaces)
       IN  /\ b > a
           /\ HasAt(s, b, u.type)
           /\ LET c == b + Len(u.type)
                  d == SkipClass(s, c, Spaces)
              IN  /\ d > c
                  /\ HasAt(s, d, u.name)
                  /\ Boundary(s, d + Len(u.name))

HasUniform(s, u) == \E i \in 1..Len(s) : UniformAt(s, i, u)

UniformDecl(u) == "uniform " \o u.type \o " " \o u.name \o ";"

\* The forEach of lines 331-333 from the k-th uniform on: r.added counts
\* the declarations prepended.
RECURSIVE AddUniformsFrom(_, _)
AddUniformsFrom(r, k) ==
    IF k > Len(Uniforms) THEN r
    ELSE IF HasUniform(r.out, Uniforms[k]) THEN AddUniformsFrom(r, k + 1)
    ELSE AddUniformsFrom([r EXCEPT !.out = UniformDecl(Uniforms[k]) \o "\n" \o @,
                                   !.added = @ + 1], k + 1)

\* Step 2, lines 321-334: common uniforms.
EnsureUniforms(r) ==
    LET u == AddUniformsFrom([out |-> r.out, added |-> 0], 1)
    IN  IF u.added = 0 THEN r
        ELSE Logged([r EXCEPT !.out = u.out],
                    "Added " \o DecimalText(u.added) \o " uniform(s)")

\* Step 3, lines 336-340: texture2D -> texture.
ModernizeTextureCalls(r) ==
    IF ~Contains(r.out, "texture2D(") THEN r
    ELSE Logged([r EXCEPT !.out = ReplaceLiteral(@, "texture2D(", "texture(")],
                "Converted texture2D -> texture")

\* /\)\s*{/ matches somewhere in t.
HasParenBrace(t) ==
    \E i \in 1..Len(t) : Ch(t, i) = ")" /\ Ch(t, SkipClass(t, i + 1, Spaces)) = "{"

\* /^(uniform|attribute|varying|in|out|const)\b/ matches t.
StartsWithQualifier(t) ==
    \E q \in {"uniform", "attribute", "varying", "in", "out", "const"} :
        StartsWith(t, q) /\ Boundary(t, Len(q) + 1)

\* The callback of step 4, lines 344-351, on one line.
SemicolonLine(ln) ==
    With(Trim(ln), LAMBDA t :
        IF t = "" THEN ln
        ELSE IF StartsWith(t, "//") \/ StartsWith(t, "/*") \/ StartsWith(t, "*")
                \/ StartsWith(t, "#") THEN ln
        ELSE IF HasParenBrace(t) \/ EndsWith(t, "{") \/ EndsWith(t, "}") THEN ln
        ELSE IF Ch(t, Len(t)) \in {";", ",", ")", "{", "}"} THEN ln
        ELSE IF StartsWithQualifier(t) /\ ~EndsWith(t, ";") THEN ln \o ";"
        ELSE IF Contains(t, "=") /\ ~Contains(t, "==") /\ ~EndsWith(t, ";") THEN ln \o ";"
        ELSE ln)

\* s.split('\n').map(callback).join('\n') from position i on, lines 343-352.
RECURSIVE SemicolonLinesFrom(_, _)
SemicolonLinesFrom(s, i) ==
    LET breaks == {j \in i..Len(s) : Ch(s, j) = "\n"}
    IN  IF breaks = {} THEN SemicolonLine(From(s, i))
        ELSE LET j == Least(breaks)
             IN  SemicolonLine(Sub(s, i, j - 1)) \o "\n" \o SemicolonLinesFrom(s, j + 1)

\* Step 4, lines 342-353: semicolon insertion.
InsertSemicolons(r) ==
    Logged([r EXCEPT !.out = SemicolonLinesFrom(@, 1)],
           "Smart semicolons pass complete")

\* The division pattern with any word character accepted as the first
\* character of the denominator.
DivisionAtAnyToken(s, i) ==
    With(SkipClass(s, i + 1, Spaces), LAMBDA a :
    With(IF Ch(s, a) = "(" THEN a + 1 ELSE a, LAMBDA b :
    With(SkipClass(s, b + 1, WordChars), LAMBDA c :
    With(IF Ch(s, c) = "." /\ Ch(s, c + 1) \in Swizzle
           THEN Min(SkipClass(s, c + 1, Swizzle), c + 5)
           ELSE c, LAMBDA d :
        [ok |-> Ch(s, i) = "/" /\ Ch(s, b) \in WordChars,
         from |-> b, upto |-> d, close |-> Ch(s, d) = ")",
         next |-> IF Ch(s, d) = ")" THEN d + 1 ELSE d]))))

\* /\/\s*\(?([a-zA-Z_]\w*(?:\.[xyzw]{1,4})?)(\)?)/ at position i: the
\* positions of the capture groups, or ok = FALSE when it does not match.
\* g1 is s[from..upto-1]; g2 is ")" when close, else empty; the match ends
\* before position next.
DivisionAt(s, i) ==
    With(SkipClass(s, i + 1, Spaces), LAMBDA a :
    With(IF Ch(s, a) = "(" THEN a + 1 ELSE a, LAMBDA b :
    With(SkipClass(s, b + 1, WordChars), LAMBDA c :
    With(IF Ch(s, c) = "." /\ Ch(s, c + 1) \in Swizzle
           THEN Min(SkipClass(s, c + 1, Swizzle), c + 5)
           ELSE c, LAMBDA d :
        [ok |-> Ch(s, i) = "/" /\ Ch(s, b) \in IdentStart,
         from |-> b, upto |-> d, close |-> Ch(s, d) = ")",
         next |-> IF Ch(s, d) = ")" THEN d + 1 ELSE d]))))

\* The replacement callback of lines 356-359 for the match m of s.
GuardedDenominator(s, m) ==
    With(Sub(s, m.from, m.upto - 1), LAMBDA g1 :
    With(IF m.close THEN ")" ELSE "", LAMBDA g2 :
        IF Ch(g1, 1) \in Digits THEN "/" \o g1 \o g2
        ELSE "/ max(" \o g1 \o ", 0.000001)" \o g2))

\* out.replace(<the division pattern>, callback) from position i on.
RECURSIVE GuardDivisionsFrom(_, _)
GuardDivisionsFrom(s, i) ==
    With({j \in i..Len(s) : Ch(s, j) = "/" /\ DivisionAt(s, j).ok}, LAMBDA hits :
        IF hits = {} THEN From(s, i)
        ELSE With(DivisionAt(s, Least(hits)), LAMBDA m :
                 Sub(s, i, Least(hits) - 1) \o GuardedDenominator(s, m)
                 \o GuardDivisionsFrom(s, m.next)))

\* Step 5, lines 355-360: division guards.
GuardDivisions(r) ==
    Logged([r EXCEPT !.out = GuardDivisionsFrom(@, 1)], "Inserted division guards")

\* Lines 363-365 (and 447-449): missing closing braces, on a line of their own.
CloseBraces(s) ==
    LET opens == Count(s, "{")
        closes == Count(s, "}")
    IN  IF opens > closes THEN s \o "\n" \o Repeat("}", opens - closes) ELSE s

\* Lines 366-368 with nothing appended.
CloseParensNone(s) == s

\* Lines 366-368 (and 450-452): missing closing parentheses.
CloseParens(s) ==
    LET opar == Count(s, "(")
        cpar == Count(s, ")")
    IN  IF opar > cpar THEN s \o Repeat(")", opar - cpar) ELSE s

\* Step 6, lines 362-368: close braces/parens.
BalanceDelimiters(r) ==
    LET braces == Count(r.out, "{") - Count(r.out, "}")
        r1 == IF braces > 0
                THEN Logged([r EXCEPT !.out = CloseBraces(@)],
                            "Closed " \o DecimalText(braces) \o " missing braces")
                ELSE r
        parens == Count(r1.out, "(") - Count(r1.out, ")")
    IN  IF parens > 0
          THEN Logged([r1 EXCEPT !.out = CloseParens(@)],
                      "Closed " \o DecimalText(parens) \o " missing parentheses")
          ELSE r1

\* Step 7, lines 370-371: fix placeholders.
ReplacePlaceholders(r) ==
    [r EXCEPT !.out = ReplaceWord(ReplaceWord(@, "undefined", "0.0"), "NULL", "0.0")]

\* /\b(vec[234])\s+([a-zA-Z_]\w*)\s*=\s*([0-9]+(?:\.[0-9]+)?)\s*;/ at
\* position i: the groups, or ok = FALSE when it does not match.
VecInitAt(s, i) ==
    With(i + Len("vec2"), LAMBDA a :
    With(SkipClass(s, a, Spaces), LAMBDA b :
    With(SkipClass(s, b + 1, WordChars), LAMBDA c :
    With(SkipClass(s, c, Spaces), LAMBDA d :
    With(SkipClass(s, d + 1, Spaces), LAMBDA e :
    With(SkipClass(s, e, Digits), LAMBDA f :
    With(IF Ch(s, f) = "." /\ Ch(s, f + 1) \in Digits
           THEN SkipClass(s, f + 1, Digits) ELSE f, LAMBDA g :
    With(SkipClass(s, g, Spaces), LAMBDA h :
        [ok |-> /\ Boundary(s, i)
                /\ \E n \in {"2", "3", "4"} : HasAt(s, i, "vec" \o n)
                /\ b > a
                /\ Ch(s, b) \in IdentStart
                /\ Ch(s, d) = "="
                /\ f > e
                /\ Ch(s, h) = ";",
         type |-> Sub(s, i, a - 1), name |-> Sub(s, b, c - 1),
         number |-> Sub(s, e, g - 1), next |-> h + 1]))))))))

\* out.replace(<the vec pattern>, '$1 $2 = $1($3);') from position i on.
RECURSIVE CoerceVecInitFrom(_, _)
CoerceVecInitFrom(s, i) ==
    With({j \in i..Len(s) : HasAt(s, j, "vec") /\ VecInitAt(s, j).ok}, LAMBDA hits :
        IF hits = {} THEN From(s, i)
        ELSE With(VecInitAt(s, Least(hits)), LAMBDA m :
                 Sub(s, i, Least(hits) - 1)
                 \o m.type \o " " \o m.name \o " = " \o m.type \o "(" \o m.number \o ");"
                 \o CoerceVecInitFrom(s, m.next)))

\* Step 8, lines 373-374: numeric -> vec wrapper.
CoerceVecLiteralInit(r) == [r EXCEPT !.out = CoerceVecInitFrom(@, 1)]

\* /\bvoid\s+main\s*\(/ matches at position i.
MainAt(s, i) ==
    /\ HasAt(s, i, "void")
    /\ Boundary(s, i)
    /\ LET a == i + Len("void")
           b == SkipClass(s, a, Spaces)
       IN  /\ b > a
           /\ HasAt(s, b, "main")
           /\ Ch(s, SkipClass(s, b + Len("main"), Spaces)) = "("

HasMain(s) == \E i \in 1..Len(s) : MainAt(s, i)

FallbackMain == "\nvoid main(){ gl_FragColor = vec4(0.0); }"

\* Step 9, lines 376-380: ensure main.
EnsureMainPresent(r) ==
    IF HasMain(r.out) THEN r
    ELSE Logged([r EXCEPT !.out = @ \o FallbackMain], "Appended fallback main()")

\* smartFixShader, lines 310-384: the result and the messages logged.
SmartFixShader(text) ==
    LET r0 == [out |-> NormalizeNewlines(text), log |-> <<"Starting smartFixShader pass">>]
        r1 == EnsurePrecision(r0)
        r2 == EnsureUniforms(r1)
        r3 == ModernizeTextureCalls(r2)
        r4 == InsertSemicolons(r3)
        r5 == GuardDivisions(r4)
        r6 == BalanceDelimiters(r5)
        r7 == ReplacePlaceholders(r6)
        r8 == CoerceVecLiteralInit(r7)
        r9 == EnsureMainPresent(r8)
    IN  Logged(r9, "smartFixShader done")

-----------------------------------------------------------------------------
(* parseErrorsAndFix, script.js 392-464.                                   *)

UpperAlphabet == "ABCDEFGHIJKLMNOPQRSTUVWXYZ"
LowerAlphabet == "abcdefghijklmnopqrstuvwxyz"

\* The character c with the i flag applied.
ToLower(c) ==
    IF c \in UpperLetters
      THEN Ch(LowerAlphabet, CHOOSE k \in 1..Len(UpperAlphabet) : Ch(UpperAlphabet, k) = c)
      ELSE c

\* The lower-case literal p occurs in s at position i, ignoring case.
HasAtCI(s, i, p) ==
    /\ i >= 1
    /\ i + Len(p) - 1 <= Len(s)
    /\ \A k \in 1..Len(p) : ToLower(Ch(s, i + k - 1)) = Ch(p, k)

ContainsCI(s, p) == \E i \in 1..(Len(s) - Len(p) + 1) : HasAtCI(s, i, p)

\* /a.*b/i for lower-case literals a and b: b follows a on the same line.
ContainsThenCI(s, a, b) ==
    \E i \in 1..Len(s) : \E j \in (i + Len(a))..Len(s) :
        /\ HasAtCI(s, i, a)
        /\ HasAtCI(s, j, b)
        /\ \A k \in (i + Len(a))..(j - 1) : Ch(s, k) \notin {"\n", "\r"}

\* logsText.split('\n') from position i on.
RECURSIVE SplitLinesFrom(_, _)
SplitLinesFrom(s, i) ==
    LET breaks == {j \in i..Len(s) : Ch(s, j) = "\n"}
    IN  IF breaks = {} THEN <<From(s, i)>>
        ELSE LET j == Least(breaks)
             IN  <<Sub(s, i, j - 1)>> \o SplitLinesFrom(s, j + 1)

NonEmpty(s) == s # ""

\* Line 395: the trimmed, non-empty lines of the diagnostic text.
DiagnosticLines(text) ==
    LET raw == SplitLinesFrom(text, 1)
    IN  SelectSeq([k \in 1..Len(raw) |-> Trim(raw[k])], NonEmpty)

\* Line 396: the error-indicative pattern.
IsErrorLine(l) ==
    \E w \in {"error", "failed", "undefined", "undeclared", "expected", "missing",
              "unmatched", "link error"} : ContainsCI(l, w)

\* How many lines are taken when none matches the pattern, line 397.
FallbackLines == 20

\* Lines 396-397 with the fallback taking every line (slice(0, 20) left out).
CandidateErrorsUnbounded(text) ==
    LET lines == DiagnosticLines(text)
        errors == SelectSeq(lines, IsErrorLine)
    IN  IF Len(errors) > 0 THEN errors ELSE lines

\* Lines 396-397: the lines that are classified.
CandidateErrors(text) ==
    LET lines == DiagnosticLines(text)
        errors == SelectSeq(lines, IsErrorLine)
    IN  IF Len(errors) > 0 THEN errors
        ELSE SubSeq(lines, 1, Min(FallbackLines, Len(lines)))

\* The test of line 403.
MentionsSemicolon(err) ==
    \/ ContainsCI(err, "expected ';'")
    \/ ContainsCI(err, "missing ';'")
    \/ ContainsThenCI(err, "syntax error", "expected ';'")
    \/ Contains(err, "';'")

\* The callback of lines 404-411 on one line.
LogSemicolonLine(ln) ==
    With(Trim(ln), LAMBDA t :
        IF t = "" THEN ln
        ELSE IF StartsWith(t, "//") \/ StartsWith(t, "#") \/ EndsWith(t, ";")
                \/ EndsWith(t, "{") \/ EndsWith(t, "}") THEN ln
        ELSE IF Ch(t, Len(t)) \in {";", ",", ")", "{", "}"} THEN ln
        ELSE IF Contains(t, "=") /\ ~Contains(t, "==") THEN ln \o ";"
        ELSE ln)

\* patched.split('\n').map(callback).join('\n') from position i on.
RECURSIVE LogSemicolonLinesFrom(_, _)
LogSemicolonLinesFrom(s, i) ==
    LET breaks == {j \in i..Len(s) : Ch(s, j) = "\n"}
    IN  IF breaks = {} THEN LogSemicolonLine(From(s, i))
        ELSE LET j == Least(breaks)
             IN  LogSemicolonLine(Sub(s, i, j - 1)) \o "\n"
                 \o LogSemicolonLinesFrom(s, j + 1)

\* /\s*:\s*undeclared identifier/i matches at position a.
ColonUndeclaredAt(s, a) ==
    LET b == SkipClass(s, a, Spaces)
    IN  /\ Ch(s, b) = ":"
        /\ HasAtCI(s, SkipClass(s, b + 1, Spaces), "undeclared identifier")

\* The three alternatives of the pattern of line 416 at position i: the
\* captured group (lazy, so it ends at the first place the rest matches),
\* or ok = FALSE.
QuotedThenUndeclaredAt(s, i) ==
    LET ends == {q \in (i + 1)..Len(s) : Ch(s, q) = "'" /\ ColonUndeclaredAt(s, q + 1)}
    IN  IF Ch(s, i) = "'" /\ ends # {}
          THEN [ok |-> TRUE, group |-> Sub(s, i + 1, Least(ends) - 1)]
          ELSE [ok |-> FALSE, group |-> ""]

UndeclaredThenQuotedAt(s, i) ==
    LET b == SkipClass(s, i + Len("undeclared identifier"), Spaces)
        ends == {q \in (b + 1)..Len(s) : Ch(s, q) = "'"}
    IN  IF HasAtCI(s, i, "undeclared identifier") /\ Ch(s, b) = "'" /\ ends # {}
          THEN [ok |-> TRUE, group |-> Sub(s, b + 1, Least(ends) - 1)]
          ELSE [ok |-> FALSE, group |-> ""]

ErrorQuotedUndeclaredAt(s, i) ==
    LET a == i + Len("error: '")
        ends == {q \in a..Len(s) : HasAtCI(s, q, "' undeclared")}
    IN  IF HasAtCI(s, i, "error: '") /\ ends # {}
          THEN [ok |-> TRUE, group |-> Sub(s, a, Least(ends) - 1)]
          ELSE [ok |-> FALSE, group |-> ""]

UndeclaredAt(s, i) ==
    With(QuotedThenUndeclaredAt(s, i), LAMBDA first :
        IF first.ok THEN first
        ELSE With(UndeclaredThenQuotedAt(s, i), LAMBDA second :
                 IF second.ok THEN second ELSE ErrorQuotedUndeclaredAt(s, i)))

\* err.match(...) of line 416: the leftmost match.
MatchUndeclared(err) ==
    With({i \in 1..Len(err) : UndeclaredAt(err, i).ok}, LAMBDA hits :
        IF hits = {} THEN [ok |-> FALSE, group |-> ""]
        ELSE UndeclaredAt(err, Least(hits)))

\* .replace(/[^a-zA-Z0-9_]/g, '') from position i on, line 418.
RECURSIVE SanitizeFrom(_, _)
SanitizeFrom(s, i) ==
    IF i > Len(s) THEN ""
    ELSE (IF Ch(s, i) \in WordChars THEN Ch(s, i) ELSE "") \o SanitizeFrom(s, i + 1)

\* The test of line 426.
MentionsConversion(err) ==
    \E w \in {"implicitly convert", "cannot convert",
              "conversion from 'int' to 'float'", "to 'float'"} : ContainsCI(err, w)

\* /\b([0-9]+)\b/ matches at position j.
IntegerAt(s, j) ==
    /\ Ch(s, j) \in Digits
    /\ Boundary(s, j)
    /\ Boundary(s, SkipClass(s, j, Digits))

\* patched.replace(/\b([0-9]+)\b/g, '$1.0') from position i on, line 427.
RECURSIVE FloatLiteralsFrom(_, _)
FloatLiteralsFrom(s, i) ==
    LET hits == {j \in i..Len(s) : IntegerAt(s, j)}
    IN  IF hits = {} THEN From(s, i)
        ELSE LET j == Least(hits)
                 e == SkipClass(s, j, Digits)
             IN  Sub(s, i, e - 1) \o ".0" \o FloatLiteralsFrom(s, e)

\* The tests of lines 432, 438 and 446.
MentionsTexture(err) == ContainsCI(err, "texture2d(") \/ ContainsCI(err, "texture(")

MentionsMissingMain(err) ==
    \/ ContainsThenCI(err, "undefined reference", "main")
    \/ ContainsCI(err, "no main function")
    \/ ContainsCI(err, "no symbol main")

MentionsUnmatched(err) ==
    \/ ContainsCI(err, "unmatched")
    \/ ContainsThenCI(err, "missing", "brace")
    \/ ContainsThenCI(err, "missing", "parenth")

\* The patches of lines 402-453 that one diagnostic line triggers.
PatchSemicolons(r, err) ==
    IF MentionsSemicolon(err)
      THEN Logged([r EXCEPT !.out = LogSemicolonLinesFrom(@, 1)],
                  "Applied semicolon heuristic (from logs)")
      ELSE r

PatchUndeclared(r, err) ==
    With(MatchUndeclared(err), LAMBDA m :
    With(SanitizeFrom(m.group, 1), LAMBDA id :
        IF m.ok /\ id # ""
          THEN Logged([r EXCEPT !.out = "uniform float " \o id \o ";\n" \o @],
                      "Declared " \o id \o " as uniform float (heuristic)")
          ELSE r))

PatchConversion(r, err) ==
    IF MentionsConversion(err)
      THEN Logged([r EXCEPT !.out = FloatLiteralsFrom(@, 1)],
                  "Converted integer literals to floats (heuristic)")
      ELSE r

PatchTexture(r, err) ==
    IF MentionsTexture(err) /\ Contains(r.out, "texture2D(")
      THEN Logged([r EXCEPT !.out = ReplaceLiteral(@, "texture2D(", "texture(")],
                  "Converted texture2D->texture (from logs)")
      ELSE r

PatchMissingMain(r, err) ==
    IF MentionsMissingMain(err) /\ ~HasMain(r.out)
      THEN Logged([r EXCEPT !.out = @ \o FallbackMain],
                  "Appended fallback main() (from logs)")
      ELSE r

PatchUnmatched(r, err) ==
    IF ~MentionsUnmatched(err) THEN r
    ELSE LET r1 == IF Count(r.out, "{") > Count(r.out, "}")
                     THEN Logged([r EXCEPT !.out = CloseBraces(@)],
                                 "Auto-closed braces (from logs)")
                     ELSE r
         IN  IF Count(r1.out, "(") > Count(r1.out, ")")
               THEN Logged([r1 EXCEPT !.out = CloseParens(@)],
                           "Auto-closed parentheses (from logs)")
               ELSE r1

\* The body of the forEach callback, lines 401-454, for one line.
ApplyDiagnostic(r, err) ==
    PatchUnmatched(PatchMissingMain(PatchTexture(PatchConversion(
        PatchUndeclared(PatchSemicolons(r, err), err), err), err), err), err)

\* candidateErrors.forEach(...) from the k-th line on; the result of a line
\* is a value (next) before the following line is looked at.
RECURSIVE ApplyDiagnosticsFrom(_, _, _)
ApplyDiagnosticsFrom(r, errs, k) ==
    IF k > Len(errs) THEN r
    ELSE CHOOSE result \in {ApplyDiagnosticsFrom(next, errs, k + 1) :
                               next \in {ApplyDiagnostic(r, errs[k])}} : TRUE

\* parseErrorsAndFix, lines 392-459: the result and the messages logged.
ParseErrorsAndFix(text, logs) ==
    With([out |-> text, log |-> <<"parseErrorsAndFix: analyzing logs">>], LAMBDA r0 :
    With(ApplyDiagnosticsFrom(r0, CandidateErrors(logs), 1), LAMBDA r1 :
    With(SmartFixShader(r1.out), LAMBDA final :
        [out |-> final.out,
         log |-> r1.log \o final.log \o <<"parseErrorsAndFix completed">>])))

-----------------------------------------------------------------------------
(* The fix and apply-logs buttons, script.js 467-503.                      *)

\* logMain for each message in turn: every entry is prepended to #mainLog.
LogMainAll(msgs) == [i \in 1..Len(msgs) |-> msgs[Len(msgs) + 1 - i]] \o mainLog

\* el.compileLog.textContent as the apply-logs handler reads it at line 490.
\* Entries older than the newest one and the time of day are left out; the
\* entries the two buttons write match none of the patterns of lines 396-446.
CompileLogText ==
    IF compileLog = NoLogEntry THEN ""
    ELSE "[" \o compileLog.level \o "] " \o compileLog.msg \o "\n"

EngineUntouched ==
    UNCHANGED <<program, livePrograms, liveShaders, animReq, pending, startTime,
                now, interaction, status, canvasSized>>

\* Click on the fix button, lines 468-482.
FixButton ==
    /\ passes < MaxPasses
    /\ \E r \in {SmartFixShader(code)} :
           /\ code' = r.out
           /\ fixed' = r.out
           /\ mainLog' = LogMainAll(r.log)
    /\ compileLog' = LogEntry("Auto-fix applied", "OK")
    /\ passes' = passes + 1
    /\ UNCHANGED logsInput
    /\ EngineUntouched

\* Click on the apply-logs button, lines 487-502: without any log text the
\* handler alerts and returns.
ApplyLogsButton ==
    /\ passes < MaxPasses
    /\ \E logsText \in {IF logsInput # "" THEN logsInput ELSE CompileLogText} :
           IF logsText = ""
           THEN UNCHANGED <<code, fixed, mainLog, compileLog>>
           ELSE \E r \in {ParseErrorsAndFix(code, logsText)} :
                    /\ code' = r.out
                    /\ fixed' = r.out
                    /\ mainLog' = LogMainAll(r.log)
                    /\ compileLog' = LogEntry("Applied fixes derived from logs", "OK")
    /\ passes' = passes + 1
    /\ UNCHANGED logsInput
    /\ EngineUntouched

\* Shader sources put into the editor.
Sources ==
    { "",
      "void main(){ gl_FragColor = vec4(1.0); }",
      "precision highp float;\nvoid main(){ gl_FragColor = texture2D(uSampler, uv); }",
      "void main(){ gl_FragColor = vec4(1.0) / texture2D(uSampler, uv); }",
      "//precision mediump float;\nvoid main(){}",
      "uniform float uTime;\nfloat x = undefined\nvec2 v = 2;",
      "float y = foo * 2;",
      "float q = a / b;\nfloat h = a / 2.0;",
      "float k = 1.0 + 2 * b3;",
      "void main(){ if (a > b) { x = min(a, b",
      "void main(){ } } )",
      "float q = a /(b);" }

\* Identifiers a diagnostic can name, and the diagnostic line naming one.
Identifiers == {"foo", "uTime", "undefined"}
UndeclaredLine(id) == "ERROR: '" \o id \o "' : undeclared identifier"

\* A diagnostic text of 22 non-empty lines (and two blank ones), none with a
\* word of the pattern of line 396.  Lines 19 and 20 call for the semicolon
\* and the conversion patch; lines 21 and 22 for the conversion, texture and
\* missing-main patches.
LongLog ==
    "note 1\n\n  note 2  \nnote 3\nnote 4\nnote 5\nnote 6\n   \nnote 7\nnote 8\n"
    \o "note 9\nnote 10\nnote 11\nnote 12\nnote 13\nnote 14\nnote 15\nnote 16\n"
    \o "note 17\nnote 18\nhint: add ';'\ncannot convert 'int' to 'float'\n"
    \o "implicitly convert: texture2D( is deprecated\nno main function"

\* Two lines that each call for the conversion patch.
ConversionLog == "cannot convert 'int' to 'float'\nimplicitly convert int"

\* Texts put into the logs input.
LogTexts ==
    {""} \cup {UndeclaredLine(id) : id \in Identifiers}
         \cup {"ERROR: 0:2: 'x' : syntax error, expected ';'\nno main function"}
         \cup {LongLog, ConversionLog}

InitFixer ==
    /\ EngineInit
    /\ code \in Sources
    /\ logsInput \in LogTexts
    /\ fixed = ""
    /\ mainLog = <<>>
    /\ passes = 0

NextFixer == FixButton \/ ApplyLogsButton

SpecFixer == InitFixer /\ [][NextFixer]_vars

-----------------------------------------------------------------------------
(* Claims about the fix and apply-logs buttons, under SpecFixer.           *)

\* Number of places where the literal p occurs in s.
Occurrences(s, p) == Cardinality({i \in 1..Len(s) : HasAt(s, i, p)})

\* The messages this step added to #mainLog, oldest first.
NewEntries ==
    LET n == Len(mainLog') - Len(mainLog)
    IN  [i \in 1..n |-> mainLog'[n + 1 - i]]

\* The editor holds the result of a smartFixShader pass.
Repaired == mainLog # <<>> /\ code = fixed

\* What steps 1, 2, 3 and 9 of smartFixShader log when they change the source.
RepairStepMessages ==
    {"Inserted precision mediump float;", "Converted texture2D -> texture",
     "Appended fallback main()"}
        \cup {"Added " \o DecimalText(n) \o " uniform(s)" : n \in 1..Len(Uniforms)}

\* C7: running the repair on a source that is itself a result of the repair
\* inserts no precision statement, prepends no uniform declaration, replaces
\* no texture call and appends no fallback main.
C7_RepairIdempotent ==
    [][(Repaired /\ FixButton)
          => \A i \in 1..Len(NewEntries) : NewEntries[i] \notin RepairStepMessages]_vars

\* C8: for a source without a precision statement that declares void main(,
\* the result of the repair starts with the line precision mediump float;
\* and has as many void main( as the source: no fallback main is appended.
C8_PrecisionFirstNoSecondMain ==
    [][(FixButton /\ ~HasPrecision(code) /\ Contains(code, "void main("))
          => /\ StartsWith(code', "precision mediump float;\n")
             /\ Occurrences(code', "void main(") = Occurrences(code, "void main(")
             /\ \A i \in 1..Len(NewEntries) : NewEntries[i] # "Appended fallback main()"]_vars

\* C9: for a source that contains texture2D(uSampler, uv), the result of the
\* repair contains texture(uSampler, uv) and no texture2D( any more.
C9_TextureCallModernized ==
    [][(FixButton /\ Contains(code, "texture2D(uSampler, uv)"))
          => /\ Contains(code', "texture(uSampler, uv)")
             /\ ~Contains(code', "texture2D(")]_vars

\* C10: with the one diagnostic line ERROR: 'id' : undeclared identifier,
\* apply-logs declares id before the final smartFixShader pass starts, and
\* the resulting source contains uniform float id;.
C10_UndeclaredGetsUniform ==
    [][\A id \in Identifiers :
          (ApplyLogsButton /\ logsInput = UndeclaredLine(id))
             => /\ \E i, j \in 1..Len(NewEntries) :
                     /\ i < j
                     /\ NewEntries[i] = "Declared " \o id \o " as uniform float (heuristic)"
                     /\ NewEntries[j] = "Starting smartFixShader pass"
                /\ Contains(code', "uniform float " \o id \o ";")]_vars

\* The text the apply-logs handler classifies, line 490.
LogsRead == IF logsInput # "" THEN logsInput ELSE CompileLogText

\* The messages of the two patches that do not depend on the source.
SemicolonMessage == "Applied semicolon heuristic (from logs)"
ConversionMessage == "Converted integer literals to floats (heuristic)"
IsSourceFreePatch(msg) == msg \in {SemicolonMessage, ConversionMessage}

\* What those two patches log when exactly the lines from the k-th on are
\* classified, in order.
RECURSIVE SourceFreeTraceFrom(_, _)
SourceFreeTraceFrom(lines, k) ==
    IF k > Len(lines) THEN <<>>
    ELSE (IF MentionsSemicolon(lines[k]) THEN <<SemicolonMessage>> ELSE <<>>)
         \o (IF MentionsConversion(lines[k]) THEN <<ConversionMessage>> ELSE <<>>)
         \o SourceFreeTraceFrom(lines, k + 1)

\* C11: when no non-empty trimmed line of the diagnostic text matches the
\* error pattern, exactly the first 20 such lines (all, if fewer) are
\* classified, in order: the patches logged are those of these lines, line 21
\* and later trigger none, and the call completes.
C11_FallbackFirstTwentyLines ==
    [][(ApplyLogsButton /\ LogsRead # ""
          /\ \A k \in 1..Len(DiagnosticLines(LogsRead)) :
                ~IsErrorLine(DiagnosticLines(LogsRead)[k]))
       => \E first \in {SubSeq(DiagnosticLines(LogsRead), 1,
                               Min(20, Len(DiagnosticLines(LogsRead))))} :
            /\ SelectSeq(NewEntries, IsSourceFreePatch) = SourceFreeTraceFrom(first, 1)
            /\ \A i \in 1..Len(NewEntries) :
                 /\ NewEntries[i] = "Converted texture2D->texture (from logs)"
                      => \E k \in 1..Len(first) : MentionsTexture(first[k])
                 /\ NewEntries[i] = "Appended fallback main() (from logs)"
                      => \E k \in 1..Len(first) : MentionsMissingMain(first[k])
                 /\ NewEntries[i] \in {"Auto-closed braces (from logs)",
                                       "Auto-closed parentheses (from logs)"}
                      => \E k \in 1..Len(first) : MentionsUnmatched(first[k])
                 /\ StartsWith(NewEntries[i], "Declared ")
                      => \E k \in 1..Len(first) : MatchUndeclared(first[k]).ok
            /\ NewEntries[Len(NewEntries)] = "parseErrorsAndFix completed"
            /\ code' = fixed']_vars

\* The 22-line text was applied to a source with an integer literal, a
\* texture2D( call and no main: the patches of lines 19 and 20 ran.
C11_Witness ==
    /\ logsInput = LongLog
    /\ passes = 1
    /\ Len(mainLog) > 2
    /\ mainLog[1] = "parseErrorsAndFix completed"
    /\ \E i, j \in 1..Len(mainLog) :
         i < j /\ mainLog[i] = ConversionMessage /\ mainLog[j] = SemicolonMessage
    /\ Contains(code, "foo * 2.0;")

\* C12: a repair pass rewrites the division by a bare identifier, a / b, into
\* a / max(b, 0.000001), and leaves the division by a numeric literal,
\* a / 2.0, as it is.
C12_DivisionGuard ==
    [][FixButton =>
         /\ Contains(code, "a / b;") => Contains(code', "a / max(b, 0.000001);")
         /\ Contains(code, "a / 2.0;") => Contains(code', "a / 2.0;")
         /\ ~Contains(code, "max(") /\ Contains(code, "a / 2.0;")
              => ~Contains(code', "max(2")]_vars

\* One pass over the source with both divisions has run.
C12_Witness ==
    /\ passes = 1
    /\ mainLog # <<>> /\ mainLog[1] = "smartFixShader done"
    /\ Contains(code, "float q = a / max(b, 0.000001);")
    /\ Contains(code, "float h = a / 2.0;")

\* No opener of s lacks its closer.
NoDeficit(s) == Count(s, "{") <= Count(s, "}") /\ Count(s, "(") <= Count(s, ")")

\* t has at least as many of each opener and of each closer as s.
CountsKept(s, t) == \A d \in {"{", "}", "(", ")"} : Count(t, d) >= Count(s, d)

\* t is s followed by closers (and the line break put before the braces).
OnlyClosersAppended(s, t) ==
    /\ StartsWith(t, s)
    /\ \A k \in (Len(s) + 1)..Len(t) : Ch(t, k) \in {"\n", "}", ")"}

\* C13: for every text the editor holds, balanceDelimiters (and the patch for
\* an "unmatched" diagnostic) leaves no opener without its closer, only
\* appends closers, and so lowers no count of an opener or closer and removes
\* no excess closer; the text a whole pass puts back has no deficit and no
\* lower count either.
C13_BalanceOnlyAppendsClosers ==
    [][(mainLog' # mainLog) =>
         /\ \A t \in {BalanceDelimiters([out |-> code, log |-> <<>>]).out,
                      PatchUnmatched([out |-> code, log |-> <<>>], "unmatched '{'").out,
                      BalanceDelimiters([out |-> code', log |-> <<>>]).out} :
              /\ NoDeficit(t)
              /\ \/ OnlyClosersAppended(code, t) /\ CountsKept(code, t)
                 \/ OnlyClosersAppended(code', t) /\ CountsKept(code', t)
         /\ NoDeficit(code')
         /\ CountsKept(code, code')]_vars

\* A pass has closed the two braces and the parenthesis left open in the source.
C13_Witness ==
    /\ passes = 1
    /\ \E i \in 1..Len(mainLog) : mainLog[i] = "Closed 2 missing braces"
    /\ \E i \in 1..Len(mainLog) : mainLog[i] = "Closed 1 missing parentheses"
    /\ Contains(code, "x = min(a, b")
    /\ Count(code, "{") = Count(code, "}")
    /\ Count(code, "(") = Count(code, ")")

-----------------------------------------------------------------------------
(* Exceptions inside the fixer.  Both functions are one try block with one *)
(* catch (script.js 311-388, 393-463).  The statements in them that can    *)
(* raise are those that build a longer string (a string that outgrows the  *)
(* engine's limit is a RangeError).                                        *)

\* e.message of the exception.
ExceptionMessages == {"Invalid string length"}

\* The step of smartFixShader numbered j, lines 315-380.
RepairStep(r, j) ==
    CASE j = 1 -> EnsurePrecision(r)
      [] j = 2 -> EnsureUniforms(r)
      [] j = 3 -> ModernizeTextureCalls(r)
      [] j = 4 -> InsertSemicolons(r)
      [] j = 5 -> GuardDivisions(r)
      [] j = 6 -> BalanceDelimiters(r)
      [] j = 7 -> ReplacePlaceholders(r)
      [] j = 8 -> CoerceVecLiteralInit(r)
      [] j = 9 -> EnsureMainPresent(r)

RepairSteps == 1..9

\* smartFixShader after its steps 1..k, lines 312-380.
RECURSIVE StepsUpTo(_, _)
StepsUpTo(text, k) ==
    IF k = 0
      THEN [out |-> NormalizeNewlines(text), log |-> <<"Starting smartFixShader pass">>]
      ELSE CHOOSE result \in {RepairStep(prev, k) : prev \in {StepsUpTo(text, k - 1)}} : TRUE

\* Step k of smartFixShader on text builds a longer string: it can raise.
StepCanRaise(text, k) ==
    \E prev \in {StepsUpTo(text, k - 1)} : Len(RepairStep(prev, k).out) > Len(prev.out)

\* smartFixShader when its step k raises msg: steps 1..k-1 have logged, the
\* catch of lines 385-388 logs the error and returns the argument.
SmartFixShaderRaising(text, k, msg) ==
    [out |-> text,
     log |-> Append(StepsUpTo(text, k - 1).log, "smartFixShader error: " \o msg)]

\* The p-th patch of the forEach callback, lines 402-453.
DiagnosticPatch(r, err, p) ==
    CASE p = 1 -> PatchSemicolons(r, err)
      [] p = 2 -> PatchUndeclared(r, err)
      [] p = 3 -> PatchConversion(r, err)
      [] p = 4 -> PatchTexture(r, err)
      [] p = 5 -> PatchMissingMain(r, err)
      [] p = 6 -> PatchUnmatched(r, err)

PatchesPerLine == 6

\* parseErrorsAndFix after the first n patches of its loop (line by line,
\* six patches a line), lines 394-454.
RECURSIVE PatchesUpTo(_, _, _)
PatchesUpTo(text, errs, n) ==
    IF n = 0
      THEN [out |-> text, log |-> <<"parseErrorsAndFix: analyzing logs">>]
      ELSE CHOOSE result \in
               {DiagnosticPatch(prev, errs[((n - 1) \div PatchesPerLine) + 1],
                                ((n - 1) % PatchesPerLine) + 1) :
                    prev \in {PatchesUpTo(text, errs, n - 1)}} : TRUE

\* The n-th patch of the loop builds a longer string: it can raise.
PatchCanRaise(text, errs, n) ==
    /\ n \in 1..(PatchesPerLine * Len(errs))
    /\ Len(PatchesUpTo(text, errs, n).out) > Len(PatchesUpTo(text, errs, n - 1).out)

\* parseErrorsAndFix when the n-th patch of its loop raises msg: the catch of
\* lines 460-463 logs the error and returns the argument.
ParseErrorsAndFixLoopRaising(text, logs, n, msg) ==
    [out |-> text,
     log |-> Append(PatchesUpTo(text, CandidateErrors(logs), n - 1).log,
                    "parseErrorsAndFix error: " \o msg)]

\* parseErrorsAndFix when step k of its final smartFixShader pass (line 457)
\* raises msg: smartFixShader catches it and returns the patched text it was
\* given, and parseErrorsAndFix completes, lines 458-459.
ParseErrorsAndFixPassRaising(text, logs, k, msg) ==
    With(ApplyDiagnosticsFrom([out |-> text,
                               log |-> <<"parseErrorsAndFix: analyzing logs">>],
                              CandidateErrors(logs), 1), LAMBDA r1 :
    With(SmartFixShaderRaising(r1.out, k, msg), LAMBDA final :
        [out |-> final.out,
         log |-> r1.log \o final.log \o <<"parseErrorsAndFix completed">>]))

\* The fix button when step k of smartFixShader raises msg, lines 467-483:
\* window.GODFIX_FIXED is not assigned.
FixButtonRaising(k, msg) ==
    /\ passes < MaxPasses
    /\ StepCanRaise(code, k)
    /\ \E r \in {SmartFixShaderRaising(code, k, msg)} :
           /\ code' = r.out
           /\ mainLog' = LogMainAll(r.log)
    /\ compileLog' = LogEntry("Auto-fix applied", "OK")
    /\ passes' = passes + 1
    /\ UNCHANGED <<logsInput, fixed>>
    /\ EngineUntouched

\* The apply-logs button when the n-th patch of the loop raises msg.
ApplyLogsLoopRaising(n, msg) ==
    /\ passes < MaxPasses
    /\ LogsRead # ""
    /\ PatchCanRaise(code, CandidateErrors(LogsRead), n)
    /\ \E r \in {ParseErrorsAndFixLoopRaising(code, LogsRead, n, msg)} :
           /\ code' = r.out
           /\ mainLog' = LogMainAll(r.log)
    /\ compileLog' = LogEntry("Applied fixes derived from logs", "OK")
    /\ passes' = passes + 1
    /\ UNCHANGED <<logsInput, fixed>>
    /\ EngineUntouched

\* The apply-logs button when step k of the final pass raises msg.
ApplyLogsPassRaising(k, msg) ==
    /\ passes < MaxPasses
    /\ LogsRead # ""
    /\ \E r \in {ParseErrorsAndFixPassRaising(code, LogsRead, k, msg)} :
           /\ StepCanRaise(r.out, k)
           /\ code' = r.out
           /\ mainLog' = LogMainAll(r.log)
    /\ compileLog' = LogEntry("Applied fixes derived from logs", "OK")
    /\ passes' = passes + 1
    /\ UNCHANGED <<logsInput, fixed>>
    /\ EngineUntouched

\* Sources and diagnostic texts of the runs with exceptions.
FaultSources ==
    { "void main(){ gl_FragColor = vec4(1.0) / texture2D(uSampler, uv); }",
      "float y = foo * 2;" }

FaultLogTexts ==
    { UndeclaredLine("foo"),
      "ERROR: 0:2: 'x' : syntax error, expected ';'\nno main function" }

\* The longest loop of the diagnostic texts above: two lines.
FaultPatches == 1..(2 * PatchesPerLine)

InitFaults ==
    /\ EngineInit
    /\ code \in FaultSources
    /\ logsInput \in FaultLogTexts
    /\ fixed = ""
    /\ mainLog = <<>>
    /\ passes = 0

NextFaults ==
    \/ FixButton
    \/ ApplyLogsButton
    \/ \E k \in RepairSteps, msg \in ExceptionMessages : FixButtonRaising(k, msg)
    \/ \E n \in FaultPatches, msg \in ExceptionMessages : ApplyLogsLoopRaising(n, msg)
    \/ \E k \in RepairSteps, msg \in ExceptionMessages : ApplyLogsPassRaising(k, msg)

SpecFaults == InitFaults /\ [][NextFaults]_vars

\* What C14 describes: smartFixShader after steps 1..j when step k raises
\* msg and only that step is skipped.
RECURSIVE SkippingUpTo(_, _, _, _)
SkippingUpTo(text, k, msg, j) ==
    IF j = 0 THEN StepsUpTo(text, 0)
    ELSE CHOOSE result \in
             {IF j = k THEN Logged(prev, "smartFixShader error: " \o msg)
                       ELSE RepairStep(prev, j) :
                  prev \in {SkippingUpTo(text, k, msg, j - 1)}} : TRUE

\* C14: when one step of repair raises, only that step is skipped: an error
\* entry is recorded, the source with the effects of the earlier steps is
\* carried forward, the remaining steps run, and repair returns.
C14_OnlyFailingStepSkipped ==
    [][\A k \in RepairSteps, msg \in ExceptionMessages :
         FixButtonRaising(k, msg) =>
           /\ code' = SkippingUpTo(code, k, msg, 9).out
           /\ \E i \in 1..Len(NewEntries) : NewEntries[i] = "smartFixShader error: " \o msg
           /\ NewEntries[Len(NewEntries)] = "smartFixShader done"]_vars

\* C15: remediate never raises to its caller; if an exception occurs during
\* remediation it returns the source it was given, unchanged, and records
\* an error entry.
C15_RemediateReturnsOriginalOnException ==
    [][\A msg \in ExceptionMessages :
         (\/ \E n \in FaultPatches : ApplyLogsLoopRaising(n, msg)
          \/ \E k \in RepairSteps : ApplyLogsPassRaising(k, msg))
         => /\ code' = code
            /\ \E i \in 1..Len(NewEntries) :
                 NewEntries[i] \in {"parseErrorsAndFix error: " \o msg,
                                    "smartFixShader error: " \o msg}]_vars

-----------------------------------------------------------------------------
(* Further claims about the preview engine, under Spec.                    *)

\* C16, as stated: every failing recompile issued while a preview is running
\* tears the running program down, whether a shader does not compile or the
\* link fails: no program is live afterwards.
C16_EveryFailureTearsDown ==
    [][\A o \in CompileOutcomes, info \in DriverInfos :
         program # 0 /\ (CompileAndRunShaderFail(o, info) \/ CompileAndRunLinkFail(o, info))
         => program' = 0 /\ livePrograms' = {}]_vars

\* C16, amended: a failing recompile issued while a preview is running tears
\* the running program down only when the link fails; when a shader does not
\* compile the running program stays live and current.  Either way the
\* frame callback stays scheduled.
C16_OnlyLinkFailureTearsDown ==
    [][\A o \in CompileOutcomes, info \in DriverInfos :
         /\ program # 0 /\ CompileAndRunLinkFail(o, info)
              => program' = 0 /\ livePrograms' = {} /\ pending' = pending
         /\ program # 0 /\ CompileAndRunShaderFail(o, info)
              => /\ program' = program
                 /\ livePrograms' = {program}
                 /\ pending' = pending]_vars

\* A link failure has blanked a running preview: no program, the frame
\* callback still scheduled.
C16_Witness ==
    /\ program = 0
    /\ livePrograms = {}
    /\ pending # {}
    /\ compileLog.level = "ERR"
    /\ \E info \in DriverInfos : compileLog.msg = "Compile/Link failed: Link error: " \o info

\* C17: the start time from which uTime is measured is reset to now on, and
\* only on, a successful link.  A successful compileAndRun deletes the prior
\* program, cancels the prior frame callback, schedules a fresh render loop
\* and resets the start time; every other step (failed compileAndRun, stop,
\* render tick, gesture, passage of time) leaves the start time unchanged.
C17_StartTimeResetOnlyOnSuccess ==
    [][/\ CompileAndRunOk =>
            /\ startTime' = now
            /\ program' # 0 /\ program' # program /\ livePrograms' = {program'}
            /\ animReq' \notin pending /\ pending' = {animReq'}
       /\ ~CompileAndRunOk => startTime' = startTime]_vars

\* A preview was started after the clock had advanced: uTime is measured
\* from that later start time.
C17_Witness ==
    /\ startTime = MaxTime
    /\ now = MaxTime
    /\ program # 0
    /\ status = "Status: Preview running"

\* C18: a render tick only ever runs against a live linked program: in no
\* reachable state is a frame callback scheduled while the current program
\* handle is null.
C18_NoCallbackWithoutProgram == pending # {} => program # 0

\* C19: the shader objects are released as a unit with their program: the
\* number of live shader objects is at most two, and is zero whenever no
\* program is live.
C19_ShadersReleasedWithProgram ==
    /\ liveShaders <= 2
    /\ livePrograms = {} => liveShaders = 0

-----------------------------------------------------------------------------
(* A further claim about the apply-logs button, under SpecFixer.           *)

\* Some line that parseErrorsAndFix classifies calls for the conversion patch.
ConversionTriggered ==
    \E errs \in {CandidateErrors(LogsRead)} :
        \E k \in 1..Len(errs) : MentionsConversion(errs[k])

\* C20: the conversion patch appends .0 to every bare integer literal and to
\* nothing else, also when several diagnostic lines trigger it: in
\* "float k = 1.0 + 2 * b3;" the literal 2 becomes 2.0, and the literal 1.0
\* and the identifier b3 stay as they are.
C20_OnlyBareIntegersConverted ==
    [][(ApplyLogsButton /\ ConversionTriggered
          /\ Contains(code, "float k = 1.0 + 2 * b3;"))
       => Contains(code', "float k = 1.0 + 2.0 * b3;")]_vars

-----------------------------------------------------------------------------
(* A further claim about the fix button, under SpecFixer.                  *)

\* The number of "(" of s minus the number of ")".
ParenDifference(s) == Count(s, "(") - Count(s, ")")

\* C21: a repair pass rewrites the parenthesised division /(b), b a bare
\* identifier, into / max(b, 0.000001): the result has exactly one guarded
\* denominator and the same difference between the counts of ( and ) as the
\* input, so no stray closing parenthesis is left behind.
C21_ParenthesisedDivisionGuard ==
    [][(FixButton /\ Contains(code, "a /(b);") /\ ~Contains(code, "max("))
       => /\ Contains(code', "a / max(b, 0.000001);")
          /\ Occurrences(code', "max(") = 1
          /\ ParenDifference(code') = ParenDifference(code)]_vars

-----------------------------------------------------------------------------
(* A further claim about the canvas gestures, under Spec.                  *)

\* A step of one of the pointer, wheel, click and touch handlers.
GestureStep ==
    \/ \E x \in PointerXs, y \in PointerYs : PointerDown(x, y)
    \/ \E x \in PointerXs : PointerMove(x)
    \/ PointerUp
    \/ \E d \in WheelDeltas : Wheel(d)
    \/ Click
    \/ \E t \in TouchLists : TouchStart(t)
    \/ \E t \in TouchLists : TouchMove(t)
    \/ TouchEnd

\* C22: gesture handling updates InteractionState only, whatever the engine
\* state (Idle, Running, CompileFailed): every pointer, wheel, click and
\* touch handler applies its update and leaves the current program, the
\* scheduled render loop, the start time and the engine state unchanged.
C22_GesturesTouchInteractionOnly ==
    [][/\ GestureStep =>
            /\ program' = program /\ livePrograms' = livePrograms
            /\ animReq' = animReq /\ pending' = pending
            /\ startTime' = startTime
            /\ EngineState' = EngineState
       /\ \A x \in PointerXs, y \in PointerYs :
            PointerDown(x, y) => interaction'.dragging /\ interaction'.lastX = x
       /\ PointerUp \/ TouchEnd => ~interaction'.dragging
       /\ Click => interaction'.colorOffset = interaction.colorOffset + ColorStep
       /\ \A d \in WheelDeltas :
            Wheel(d) => interaction'.zoom \in ZoomMin..ZoomMax]_vars

\* The view was dragged, zoomed and recoloured, and a drag is under way,
\* while a preview is running behind a failed recompile, at a later time
\* than its start.
C22_Witness ==
    /\ EngineState = "CompileFailed"
    /\ program # 0
    /\ pending # {}
    /\ now > startTime
    /\ interaction.dragging
    /\ interaction.rotation # 0
    /\ interaction.zoom # ZoomInit
    /\ interaction.colorOffset # 0

=============================================================================
